---- MODULE Spec2Model ----
(***************************************************************************)
(* A model of clean_data.py: clean_sql_data and the text functions nested  *)
(* in it.  A text is a sequence of characters; a character is a one-       *)
(* character string, except that the non-ASCII characters of the source    *)
(* are written by their code point ("U+00AC").                             *)
(***************************************************************************)
EXTENDS Integers, Sequences, FiniteSets, TLC

SQ == "'"
BS == "\\"
LF == "\n"
SP == " "
TAB == "\t"
\* The backtick, which a TLA+ string cannot hold.
BT == "BACKTICK"

\* The characters Python's \s matches, among those the model's texts use.
Whitespace == {SP, TAB, LF, "\r"}

IsSpace(c) == c \in Whitespace

Digits == {"0", "1", "2", "3", "4", "5", "6", "7", "8", "9"}

Lower == <<"a","b","c","d","e","f","g","h","i","j","k","l","m",
           "n","o","p","q","r","s","t","u","v","w","x","y","z">>

Upper == <<"A","B","C","D","E","F","G","H","I","J","K","L","M",
           "N","O","P","Q","R","S","T","U","V","W","X","Y","Z">>

LowerSet == {Lower[i] : i \in 1..26}

UpperSet == {Upper[i] : i \in 1..26}

\* str.lower() and str.upper() of one character.
ToLower(c) == IF c \in UpperSet THEN Lower[CHOOSE i \in 1..26 : Upper[i] = c] ELSE c

ToUpper(c) == IF c \in LowerSet THEN Upper[CHOOSE i \in 1..26 : Lower[i] = c] ELSE c

\* The characters the regex class \w matches.
WordChars == LowerSet \cup UpperSet \cup Digits \cup {"_"}

\* text[i:].startswith(pat), 1-based.
StartsAt(text, i, pat) ==
    /\ i + Len(pat) - 1 <= Len(text)
    /\ \A k \in 1..Len(pat) : text[i + k - 1] = pat[k]

\* As StartsAt, under re.IGNORECASE.
StartsAtNoCase(text, i, pat) ==
    /\ i + Len(pat) - 1 <= Len(text)
    /\ \A k \in 1..Len(pat) : ToLower(text[i + k - 1]) = ToLower(pat[k])

\* pat in text
Contains(text, pat) == \E i \in 1..Len(text) : StartsAt(text, i, pat)

\* text[i-1:] in Python's 0-based terms: the characters from position i on.
From(text, i) == SubSeq(text, i, Len(text))

RECURSIVE ReplaceFrom(_, _, _, _)
ReplaceFrom(text, old, new, i) ==
    IF i > Len(text) THEN <<>>
    ELSE IF StartsAt(text, i, old)
         THEN new \o ReplaceFrom(text, old, new, i + Len(old))
         ELSE <<text[i]>> \o ReplaceFrom(text, old, new, i + 1)

\* str.replace(old, new) for a non-empty old: the non-overlapping
\* occurrences of old, found left to right, each become new.
Replace(text, old, new) ==
    IF Contains(text, old) THEN ReplaceFrom(text, old, new, 1) ELSE text

\* str.strip() / str.strip(chars): the first and last positions kept.
FirstKept(text, chars) ==
    IF \E i \in 1..Len(text) : text[i] \notin chars
    THEN CHOOSE i \in 1..Len(text) :
            /\ text[i] \notin chars
            /\ \A k \in 1..(i - 1) : text[k] \in chars
    ELSE Len(text) + 1

LastKept(text, chars) ==
    IF \E i \in 1..Len(text) : text[i] \notin chars
    THEN CHOOSE i \in 1..Len(text) :
            /\ text[i] \notin chars
            /\ \A k \in (i + 1)..Len(text) : text[k] \in chars
    ELSE 0

Strip(text, chars) == SubSeq(text, FirstKept(text, chars), LastKept(text, chars))

RStrip(text, chars) == SubSeq(text, 1, LastKept(text, chars))

----
(***************************************************************************)
(* Step 2: fix_quotes_and_special_chars                                    *)
(***************************************************************************)

\* The end of the match of  '((?:[^'\\]|\\.|'')*?)'  whose body has been
\* matched up to position p (exclusive), or 0 when there is none.  The
\* repetition is lazy and nothing follows the closing quote, so at a quote
\* the match closes at once; the alternative '' is tried only after the
\* closing quote has failed to match, which is at no quote.  "." matches
\* no line feed.
RECURSIVE LiteralEnd(_, _)
LiteralEnd(text, p) ==
    IF p > Len(text) THEN 0
    ELSE IF text[p] = SQ THEN p
    ELSE IF text[p] # BS THEN LiteralEnd(text, p + 1)
    ELSE IF p + 1 <= Len(text) /\ text[p + 1] # LF THEN LiteralEnd(text, p + 2)
    ELSE IF StartsAt(text, p, <<SQ, SQ>>) THEN LiteralEnd(text, p + 2)
    ELSE 0

\* replace_quotes_in_string: the captured content with each quote doubled,
\* wrapped in quotes again.
replace_quotes_in_string(content) ==
    <<SQ>> \o Replace(content, <<SQ>>, <<SQ, SQ>>) \o <<SQ>>

RECURSIVE SubLiterals(_, _)
SubLiterals(text, i) ==
    IF i > Len(text) THEN <<>>
    ELSE IF text[i] = SQ /\ LiteralEnd(text, i + 1) # 0
         THEN LET e == LiteralEnd(text, i + 1)
              IN  replace_quotes_in_string(SubSeq(text, i + 1, e - 1))
                    \o SubLiterals(text, e + 1)
         ELSE <<text[i]>> \o SubLiterals(text, i + 1)

fix_quotes_and_special_chars(text) == SubLiterals(text, 1)

----
(***************************************************************************)
(* Step 3: fix_apostrophes                                                 *)
(***************************************************************************)

\* The keys of apostrophe_fixes in the order the dict enumerates them, each
\* as the text before its quote and the text after it.
Contractions == <<
    <<"d","o","n">>, <<"w","o","n">>, <<"c","a","n">>,
    <<"i","s","n">>, <<"a","r","e","n">>, <<"w","a","s","n">>,
    <<"w","e","r","e","n">>, <<"d","o","e","s","n">>, <<"h","a","v","e","n">>,
    <<"h","a","s","n">>, <<"h","a","d","n">>, <<"w","o","u","l","d","n">>,
    <<"s","h","o","u","l","d","n">>, <<"c","o","u","l","d","n">>,
    <<"i","t">>, <<"t","h","a","t">>, <<"w","h","a","t">>,
    <<"h","e","r","e">>, <<"t","h","e","r","e">>, <<"w","h","e","r","e">>,
    <<"l","e","t">>, <<"w","h","o">>,
    <<"y","o","u">>, <<"w","e">>, <<"t","h","e","y">>,
    <<"I">>, <<"h","e">>, <<"s","h","e">>,
    <<"y","o","u">>, <<"w","e">>, <<"t","h","e","y">>,
    <<"I">>, <<"y","o","u">>, <<"w","e">>,
    <<"t","h","e","y">>, <<"I">> >>

ContractionTails == <<
    <<"t">>, <<"t">>, <<"t">>, <<"t">>, <<"t">>, <<"t">>, <<"t">>,
    <<"t">>, <<"t">>, <<"t">>, <<"t">>, <<"t">>, <<"t">>, <<"t">>,
    <<"s">>, <<"s">>, <<"s">>, <<"s">>, <<"s">>, <<"s">>, <<"s">>, <<"s">>,
    <<"l","l">>, <<"l","l">>, <<"l","l">>, <<"l","l">>, <<"l","l">>, <<"l","l">>,
    <<"r","e">>, <<"r","e">>, <<"r","e">>,
    <<"m">>, <<"v","e">>, <<"v","e">>, <<"v","e">>, <<"v","e">> >>

NumFixes == Len(Contractions)

\* The n-th key of apostrophe_fixes, and its value.
FixKey(n) == Contractions[n] \o <<SQ>> \o ContractionTails[n]

\* A table that maps each key to itself, so that no quote is doubled.
FixValueUnescaped(n) == FixKey(n)

FixValue(n) == Contractions[n] \o <<SQ, SQ>> \o ContractionTails[n]

\* The loop of fix_apostrophes over the entries order[n], order[n+1], ...
\* (Len(replaced) is taken so that each pass is computed before the next.)
RECURSIVE ApplyFixes(_, _, _)
ApplyFixes(text, order, n) ==
    IF n > Len(order) THEN text
    ELSE LET replaced == Replace(text, FixKey(order[n]), FixValue(order[n]))
         IN  IF Len(replaced) >= 0 THEN ApplyFixes(replaced, order, n + 1) ELSE text

\* The order in which a dict enumerates its items: insertion order.
DictOrder == [n \in 1..NumFixes |-> n]

fix_apostrophes(text) == ApplyFixes(text, DictOrder, 1)

----
(***************************************************************************)
(* Step 4: fix_newlines_and_formatting                                     *)
(***************************************************************************)

\* re.sub(r'\s+', ' ', text)
RECURSIVE CollapseSpaces(_, _)
CollapseSpaces(text, i) ==
    IF i > Len(text) THEN <<>>
    ELSE IF IsSpace(text[i])
         THEN IF i > 1 /\ IsSpace(text[i - 1])
              THEN CollapseSpaces(text, i + 1)
              ELSE <<SP>> \o CollapseSpaces(text, i + 1)
         ELSE <<text[i]>> \o CollapseSpaces(text, i + 1)

\* The mis-encoded copyright, registered and trademark signs.
GlyphCopyright == <<"U+00AC", "U+00A9">>

GlyphRegistered == <<"U+00AC", "U+00C6">>

GlyphTrademark == <<"U+201A", "U+00D1", "U+00A2">>

\* The function without its re.sub(r'\s+', ' ', text).
fix_newlines_uncollapsed(text) ==
    LET t1 == Replace(text, <<BS, "n">>, <<LF>>)
        t2 == Replace(t1, <<LF>>, <<SP>>)
        t4 == Replace(t2, GlyphCopyright, <<"(", "c", ")">>)
        t5 == Replace(t4, GlyphRegistered, <<"(", "R", ")">>)
    IN  Replace(t5, GlyphTrademark, <<"(", "T", "M", ")">>)

fix_newlines_and_formatting(text) ==
    LET t1 == Replace(text, <<BS, "n">>, <<LF>>)
        t2 == Replace(t1, <<LF>>, <<SP>>)
        t3 == CollapseSpaces(t2, 1)
        t4 == Replace(t3, GlyphCopyright, <<"(", "c", ")">>)
        t5 == Replace(t4, GlyphRegistered, <<"(", "R", ")">>)
    IN  Replace(t5, GlyphTrademark, <<"(", "T", "M", ")">>)

----
(***************************************************************************)
(* Step 5: fix_business_terms                                              *)
(***************************************************************************)

\* The end of the run of digits that starts at position p (p - 1 if none).
RECURSIVE DigitsEnd(_, _)
DigitsEnd(text, p) ==
    IF p <= Len(text) /\ text[p] \in Digits THEN DigitsEnd(text, p + 1) ELSE p - 1

\* The position of the closing quote of a match of  'T(\d+)'  at i, or 0.
\* \d+ is greedy and a digit is no quote, so only the whole run of digits
\* can be followed by the closing quote.
TCodeEnd(text, i) ==
    IF StartsAt(text, i, <<SQ, "T">>)
    THEN LET e == DigitsEnd(text, i + 2)
         IN  IF e >= i + 2 /\ e + 1 <= Len(text) /\ text[e + 1] = SQ
             THEN e + 1 ELSE 0
    ELSE 0

\* The substitution with the closing quote left single: r"''T\1'".
RECURSIVE SubTCodesOpen(_, _)
SubTCodesOpen(text, i) ==
    IF i > Len(text) THEN <<>>
    ELSE IF TCodeEnd(text, i) # 0
         THEN LET e == TCodeEnd(text, i)
              IN  <<SQ, SQ, "T">> \o SubSeq(text, i + 2, e - 1) \o <<SQ>>
                    \o SubTCodesOpen(text, e + 1)
         ELSE <<text[i]>> \o SubTCodesOpen(text, i + 1)

\* re.sub(r"'T(\d+)'", r"''T\1''", text)
RECURSIVE SubTCodes(_, _)
SubTCodes(text, i) ==
    IF i > Len(text) THEN <<>>
    ELSE IF TCodeEnd(text, i) # 0
         THEN LET e == TCodeEnd(text, i)
              IN  <<SQ, SQ, "T">> \o SubSeq(text, i + 2, e - 1) \o <<SQ, SQ>>
                    \o SubTCodes(text, e + 1)
         ELSE <<text[i]>> \o SubTCodes(text, i + 1)

fix_business_terms(text) ==
    LET t1 == Replace(text, <<"e", "&">>, <<"e", "&">>)
        t2 == Replace(t1, <<"U", "A", "E", SQ, "s">>, <<"U", "A", "E", SQ, SQ, "s">>)
        t3 == SubTCodes(t2, 1)
        t4 == Replace(t3, <<"k", "i", "d", "s", BS, SQ>>, <<"k", "i", "d", "s", SQ, SQ>>)
    IN  Replace(t4, <<BS, SQ>>, <<SQ, SQ>>)

----
(***************************************************************************)
(* Step 1: detect_table_and_columns                                        *)
(***************************************************************************)

\* The end of the run of characters of the set chars that starts at p
\* (p - 1 if the run is empty), and the same for the characters not in it.
RECURSIVE RunEnd(_, _, _)
RunEnd(text, p, chars) ==
    IF p <= Len(text) /\ text[p] \in chars THEN RunEnd(text, p + 1, chars) ELSE p - 1

RECURSIVE RunEndNot(_, _, _)
RunEndNot(text, p, chars) ==
    IF p <= Len(text) /\ text[p] \notin chars
    THEN RunEndNot(text, p + 1, chars) ELSE p - 1

InsertInto == <<"I","N","S","E","R","T"," ","I","N","T","O"," ">>

\* The match of  INSERT INTO `?(\w+)`?\s*\(([^)]+)\)  that starts at i,
\* as the bounds of its two groups, or the empty set when there is none.
\* Each quantifier is greedy and what follows it cannot match a character
\* the quantifier takes, so only the longest run can lead to a match.
InsertMatchAt(content, i) ==
    IF ~StartsAtNoCase(content, i, InsertInto) THEN {}
    ELSE LET n1 == i + Len(InsertInto)
             n2 == IF n1 <= Len(content) /\ content[n1] = BT THEN n1 + 1 ELSE n1
             n3 == RunEnd(content, n2, WordChars)
             n4 == IF n3 + 1 <= Len(content) /\ content[n3 + 1] = BT
                   THEN n3 + 2 ELSE n3 + 1
             n5 == RunEnd(content, n4, Whitespace) + 1
             n6 == RunEndNot(content, n5 + 1, {")"})
         IN  IF /\ n3 >= n2
                /\ n5 <= Len(content) /\ content[n5] = "("
                /\ n6 >= n5 + 1
                /\ n6 + 1 <= Len(content)
             THEN {[name |-> SubSeq(content, n2, n3),
                    cols |-> SubSeq(content, n5 + 1, n6)]}
             ELSE {}

\* re.search: the match at the leftmost position that has one.
InsertMatch(content) ==
    IF \E i \in 1..Len(content) : InsertMatchAt(content, i) # {}
    THEN InsertMatchAt(content,
            CHOOSE i \in 1..Len(content) :
                /\ InsertMatchAt(content, i) # {}
                /\ \A k \in 1..(i - 1) : InsertMatchAt(content, k) = {})
    ELSE {}

\* str.split(sep) for a one-character sep.
RECURSIVE SplitFrom(_, _, _, _)
SplitFrom(text, sep, start, i) ==
    IF i > Len(text) THEN <<SubSeq(text, start, Len(text))>>
    ELSE IF text[i] = sep
         THEN <<SubSeq(text, start, i - 1)>> \o SplitFrom(text, sep, i + 1, i + 1)
         ELSE SplitFrom(text, sep, start, i + 1)

Split(text, sep) == SplitFrom(text, sep, 1, 1)

\* str.title() in place of str.capitalize(): the other characters kept.
CapitalizeFirstOnly(word) ==
    [k \in 1..Len(word) |-> IF k = 1 THEN ToUpper(word[k]) ELSE word[k]]

\* str.capitalize(): the first character upper-cased, the others lower-cased.
Capitalize(word) ==
    [k \in 1..Len(word) |-> IF k = 1 THEN ToUpper(word[k]) ELSE ToLower(word[k])]

\* ''.join(words)
RECURSIVE Concat(_, _)
Concat(words, k) ==
    IF k > Len(words) THEN <<>> ELSE words[k] \o Concat(words, k + 1)

\* ''.join(word.capitalize() for word in detected_table.split('_'))
PascalCase(name) ==
    LET words == Split(name, "_")
    IN  Concat([k \in 1..Len(words) |-> Capitalize(words[k])], 1)

\* [col.strip().strip('`') for col in columns_raw.split(',')]
ColumnNames(columns_raw) ==
    LET cols == Split(columns_raw, ",")
    IN  [k \in 1..Len(cols) |-> Strip(Strip(cols[k], Whitespace), {BT})]

\* The function falling back to the parameter's default, not the parameter.
detect_default_table(content, table_name) ==
    LET insert_match == InsertMatch(content)
    IN  IF insert_match # {}
        THEN LET m == CHOOSE r \in insert_match : TRUE
             IN  [table |-> PascalCase(m.name), columns |-> ColumnNames(m.cols)]
        ELSE [table |-> <<"C","o","m","b","i","n","e","d","A","d","d","o","n","s">>,
              columns |-> <<>>]

detect_table_and_columns(content, table_name) ==
    LET insert_match == InsertMatch(content)
    IN  IF insert_match # {}
        THEN LET m == CHOOSE r \in insert_match : TRUE
             IN  [table |-> PascalCase(m.name), columns |-> ColumnNames(m.cols)]
        ELSE [table |-> table_name, columns |-> <<>>]

----
(***************************************************************************)
(* Step 6: extract_and_clean_values                                        *)
(***************************************************************************)

ValuesKeyword == <<"V","A","L","U","E","S">>

\* Whether  ;|\n\s*--|\Z  matches at q.
ValuesEndAt(content, q) ==
    \/ q = Len(content) + 1
    \/ content[q] = ";"
    \/ /\ content[q] = LF
       /\ StartsAt(content, RunEnd(content, q + 1, Whitespace) + 1, <<"-", "-">>)

\* Group 1 of the match of  VALUES\s+(.*?)(?:;|\n\s*--|\Z)  that starts at
\* i, or the empty set.  \s+ takes the whole run of whitespace, since .*?
\* and \Z let the rest always match; .*? is lazy and "." matches any
\* character, so the group ends at the first place the end can match.
ValuesMatchAt(content, i) ==
    IF ~StartsAtNoCase(content, i, ValuesKeyword) THEN {}
    ELSE LET s == i + Len(ValuesKeyword)
             g == RunEnd(content, s, Whitespace) + 1
         IN  IF g = s THEN {}
             ELSE LET q == CHOOSE q \in g..(Len(content) + 1) :
                              /\ ValuesEndAt(content, q)
                              /\ \A k \in g..(q - 1) : ~ValuesEndAt(content, k)
                  IN  {SubSeq(content, g, q - 1)}

ValuesMatch(content) ==
    IF \E i \in 1..Len(content) : ValuesMatchAt(content, i) # {}
    THEN ValuesMatchAt(content,
            CHOOSE i \in 1..Len(content) :
                /\ ValuesMatchAt(content, i) # {}
                /\ \A k \in 1..(i - 1) : ValuesMatchAt(content, k) = {})
    ELSE {}

extract_and_clean_values(content) ==
    LET values_match == ValuesMatch(content)
    IN  IF values_match # {}
        THEN LET group1 == CHOOSE g \in values_match : TRUE
             IN  Strip(RStrip(Strip(group1, Whitespace), {";"}), Whitespace)
        ELSE Strip(content, Whitespace)

----
(***************************************************************************)
(* The script clean_sql_data generates                                     *)
(***************************************************************************)

\* The template from line 177 on, up to the next placeholder.
ScriptText1 == <<
    "-","-"," ","S","Q","L"," ","S","e","r","v","e","r"," ","I","N","S","E",
    "R","T"," ","S","c","r","i","p","t"," ","f","o","r"," " >>

\* The template from line 177 on, up to the next placeholder.
ScriptText2 == <<
    "\n","-","-"," ","G","e","n","e","r","a","t","e","d"," ","b","y"," ","P",
    "y","t","h","o","n"," ","c","l","e","a","n","i","n","g"," ","s","c","r",
    "i","p","t","\n","-","-"," ","O","r","i","g","i","n","a","l"," ","M","y",
    "S","Q","L"," ","d","a","t","a"," ","c","l","e","a","n","e","d"," ","f",
    "o","r"," ","S","Q","L"," ","S","e","r","v","e","r"," ","c","o","m","p",
    "a","t","i","b","i","l","i","t","y","\n","\n","-","-"," ","E","n","a","b",
    "l","e"," ","I","D","E","N","T","I","T","Y","_","I","N","S","E","R","T",
    "\n","S","E","T"," ","I","D","E","N","T","I","T","Y","_","I","N","S","E",
    "R","T"," " >>

\* The template from line 182 on, up to the next placeholder.
ScriptText3 == <<
    " ","O","N",";","\n","S","E","T"," ","N","O","C","O","U","N","T"," ","O",
    "N",";","\n","\n","-","-"," ","B","e","g","i","n"," ","T","r","a","n","s",
    "a","c","t","i","o","n"," ","f","o","r"," ","s","a","f","e","t","y","\n",
    "B","E","G","I","N"," ","T","R","A","N","S","A","C","T","I","O","N",";",
    "\n","\n","T","R","Y","\n"," "," "," "," ","-","-"," ","I","n","s","e",
    "r","t"," ","s","t","a","t","e","m","e","n","t","s","\n"," "," "," "," ",
    "I","N","S","E","R","T"," ","I","N","T","O"," " >>

\* The template from line 190 on, up to the next placeholder.
ScriptText4 == <<" ">>

\* The template from line 190 on, up to the next placeholder.
ScriptText5 == <<" ","V","A","L","U","E","S","\n"," "," "," "," ">>

\* The template from line 191 on, up to the next placeholder.
ScriptText6 == <<
    ";","\n"," "," "," "," ","\n"," "," "," "," ","-","-"," ","C","o","m","m",
    "i","t"," ","i","f"," ","s","u","c","c","e","s","s","f","u","l","\n"," ",
    " "," "," ","C","O","M","M","I","T"," ","T","R","A","N","S","A","C","T",
    "I","O","N",";","\n"," "," "," "," ","P","R","I","N","T"," ","'","S","U",
    "C","C","E","S","S",":"," ","D","a","t","a"," ","i","n","s","e","r","t",
    "e","d"," ","s","u","c","c","e","s","s","f","u","l","l","y"," ","i","n",
    "t","o"," " >>

\* The template from line 195 on, up to the next placeholder.
ScriptText7 == <<
    "'",";","\n"," "," "," "," ","\n","E","N","D"," ","T","R","Y","\n","B",
    "E","G","I","N"," ","C","A","T","C","H","\n"," "," "," "," ","-","-"," ",
    "R","o","l","l","b","a","c","k"," ","o","n"," ","e","r","r","o","r","\n",
    " "," "," "," ","R","O","L","L","B","A","C","K"," ","T","R","A","N","S",
    "A","C","T","I","O","N",";","\n"," "," "," "," ","P","R","I","N","T"," ",
    "'","E","R","R","O","R",":"," ","'"," ","+"," ","E","R","R","O","R","_",
    "M","E","S","S","A","G","E","(",")",";","\n"," "," "," "," ","P","R","I",
    "N","T"," ","'","E","r","r","o","r"," ","o","c","c","u","r","r","e","d",
    " ","d","u","r","i","n","g"," ","i","n","s","e","r","t"," ","i","n","t",
    "o"," " >>

\* The template from line 202 on, up to the next placeholder.
ScriptText8 == <<
    "'",";","\n","E","N","D"," ","C","A","T","C","H","\n","\n","-","-"," ",
    "D","i","s","a","b","l","e"," ","I","D","E","N","T","I","T","Y","_","I",
    "N","S","E","R","T","\n","S","E","T"," ","I","D","E","N","T","I","T","Y",
    "_","I","N","S","E","R","T"," " >>

\* The template from line 206 on, up to the next placeholder.
ScriptText9 == <<
    " ","O","F","F",";","\n","S","E","T"," ","N","O","C","O","U","N","T"," ",
    "O","F","F",";","\n","\n","-","-"," ","V","e","r","i","f","y"," ","i","n",
    "s","e","r","t","i","o","n","\n","S","E","L","E","C","T"," ","C","O","U",
    "N","T","(","*",")"," ","a","s"," ","'","T","o","t","a","l"," ","R","e",
    "c","o","r","d","s"," ","i","n"," " >>

\* The template from line 210 on, up to the next placeholder.
ScriptText10 == <<"'"," ","F","R","O","M"," ">>

\* The template from line 210 on, up to the next placeholder.
ScriptText11 == <<
    ";","\n","S","E","L","E","C","T"," ","T","O","P"," ","5"," ","*"," ","F",
    "R","O","M"," " >>

\* The template from line 211 on, up to the next placeholder.
ScriptText12 == <<
    " ","O","R","D","E","R"," ","B","Y"," ","i","n","t","e","r","n","a","l",
    "_","i","d"," ","D","E","S","C",";","\n" >>

AddonsColumnList == <<
    "(","i","n","t","e","r","n","a","l","_","i","d",","," ","i","d",","," ",
    "a","d","d","i","t","i","o","n","a","l","_","d","e","t","a","i","l","s",
    ","," ","a","m","o","u","n","t",","," ","a","m","o","u","n","t","_","d",
    "e","t","a","i","l","s",","," ","b","e","s","t","_","s","e","l","l","e",
    "r",","," ","b","i","l","l","i","n","g","_","c","y","c","l","e",","," ",
    "b","r","a","n","d","_","n","a","m","e",","," ","d","e","s","c","r","i",
    "p","t","i","o","n",","," ","i","s","_","n","e","w",","," ","l","i","m",
    "i","t","e","d","_","o","f","f","e","r",","," ","p","r","o","c","e","s",
    "s","e","d","_","a","t",","," ","p","r","o","d","u","c","t","_","n","a",
    "m","e",","," ","r","u","n","_","i","d",","," ","s","e","a","s","o","n",
    "a","l","_","o","f","f","e","r",","," ","s","e","g","m","e","n","t",",",
    " ","u","r","l",","," ","v","a","t","_","a","p","p","l","i","c","a","b",
    "l","e",","," ","v","a","t","_","i","n","c","l","u","d","e","d",","," ",
    "v","a","t","_","p","e","r","c","e","n","t","a","g","e",","," ","v","a",
    "t","_","p","e","r","c","e","n","t","a","g","e","_","d","e","t","a","i",
    "l","s",","," ","v","a","l","i","d","i","t","y",","," ","c","o","v","e",
    "r","a","g","e","_","a","m","o","u","n","t",","," ","c","o","v","e","r",
    "a","g","e","_","a","m","o","u","n","t","_","d","e","t","a","i","l","s",
    ","," ","v","a","l","i","d","i","t","y","_","d","e","t","a","i","l","s",
    ","," ","m","i","n","u","t","e","s",","," ","m","i","n","u","t","e","s",
    "_","t","y","p","e",","," ","d","a","t","a","_","a","l","l","o","w","a",
    "n","c","e",","," ","d","a","t","a","_","a","l","l","o","w","a","n","c",
    "e","_","d","e","t","a","i","l","s",","," ","d","a","t","a","_","t","y",
    "p","e",","," ","m","i","n","u","t","e","s","_","d","e","t","a","i","l",
    "s",","," ","c","o","v","e","r","a","g","e","_","t","y","p","e","s",")" >>

BioColumnList == <<
    "(","i","n","t","e","r","n","a","l","_","i","d",","," ","i","d",","," ",
    "B","i","o","g","r","a","p","h","y",","," ","b","r","a","n","d","_","n",
    "a","m","e",","," ","p","r","o","c","e","s","s","e","d","_","a","t",",",
    " ","r","u","n","_","i","d",","," ","s","e","g","m","e","n","t",","," ",
    "u","r","l",")" >>

Addons == <<"A","d","d","o","n","s">>

Bio == <<"B","i","o">>

\* ", ".join(columns)
RECURSIVE JoinColumns(_, _)
JoinColumns(columns, k) ==
    IF k > Len(columns) THEN <<>>
    ELSE IF k = Len(columns) THEN columns[k]
    ELSE columns[k] \o <<",", SP>> \o JoinColumns(columns, k + 1)

\* The column list of the INSERT statement.
ColumnList(detected_table, columns) ==
    IF columns # <<>> THEN <<"(">> \o JoinColumns(columns, 1) \o <<")">>
    ELSE IF Contains(detected_table, Addons) THEN AddonsColumnList
    ELSE IF Contains(detected_table, Bio) THEN BioColumnList
    ELSE <<>>

\* The script without the SELECT TOP 5 that ends it.
ScriptWithoutPreview(detected_table, column_list, cleaned_content) ==
    ScriptText1 \o detected_table \o ScriptText2 \o detected_table
      \o ScriptText3 \o detected_table \o ScriptText4 \o column_list
      \o ScriptText5 \o RStrip(cleaned_content, {","})
      \o ScriptText6 \o detected_table \o ScriptText7 \o detected_table
      \o ScriptText8 \o detected_table \o ScriptText9 \o detected_table
      \o ScriptText10 \o detected_table \o <<";", LF>>

\* The f-string sql_server_content.
SqlServerScript(detected_table, column_list, cleaned_content) ==
    ScriptText1 \o detected_table \o ScriptText2 \o detected_table
      \o ScriptText3 \o detected_table \o ScriptText4 \o column_list
      \o ScriptText5 \o RStrip(cleaned_content, {","})
      \o ScriptText6 \o detected_table \o ScriptText7 \o detected_table
      \o ScriptText8 \o detected_table \o ScriptText9 \o detected_table
      \o ScriptText10 \o detected_table \o ScriptText11 \o detected_table
      \o ScriptText12

----
(***************************************************************************)
(* The dumps the model feeds to clean_sql_data.  A dump is written from    *)
(* its parts: an INSERT INTO clause or none, the VALUES keyword with the   *)
(* whitespace after it, the rows, and what follows the last row.  A row is *)
(* a number and string literals; a literal is a sequence of items, an item *)
(* being a character or one way of writing an inner quote.                 *)
(***************************************************************************)

RawQuote == "'"
EscapedQuote == "\\'"
DoubledQuote == "''"

QuoteItems == {RawQuote, EscapedQuote, DoubledQuote}

\* An item as it is written in the dump.
ItemText(item) ==
    IF item = EscapedQuote THEN <<BS, SQ>>
    ELSE IF item = DoubledQuote THEN <<SQ, SQ>>
    ELSE <<item>>

\* An item as SQL Server wants it written: an inner quote as two quotes.
ItemEscaped(item) == IF item \in QuoteItems THEN <<SQ, SQ>> ELSE <<item>>

LiteralText(items, escaped) ==
    <<SQ>>
      \o Concat([k \in 1..Len(items) |->
                    IF escaped THEN ItemEscaped(items[k]) ELSE ItemText(items[k])], 1)
      \o <<SQ>>

\* The numbers of the rows.
RowNumbers == <<"1", "2", "3", "4">>

\* A row: its number, then its literals.
RECURSIVE RowTail(_, _, _)
RowTail(literals, escaped, k) ==
    IF k > Len(literals) THEN <<>>
    ELSE <<",", SP>> \o LiteralText(literals[k], escaped)
           \o RowTail(literals, escaped, k + 1)

RowText(rows, n, escaped) ==
    <<"(">> \o <<RowNumbers[n]>> \o RowTail(rows[n], escaped, 1) \o <<")">>

RECURSIVE RowsFrom(_, _, _)
RowsFrom(rows, escaped, n) ==
    IF n > Len(rows) THEN <<>>
    ELSE (IF n > 1 THEN <<",", SP>> ELSE <<>>)
           \o RowText(rows, n, escaped) \o RowsFrom(rows, escaped, n + 1)

\* The values block of the rows, as written and as SQL Server wants it.
BlockText(rows) == RowsFrom(rows, FALSE, 1)

BlockEscaped(rows) == RowsFrom(rows, TRUE, 1)

\* An INSERT INTO clause: the keyword as written, whether the table name is
\* in backticks, the words of the table name, the whitespace before the
\* column list, the columns and what follows the clause.  A column is the
\* text between the commas and the name that text writes.
NoClause == [keyword |-> <<>>, ticked |-> FALSE, segments |-> <<>>, gap |-> <<>>,
             columns |-> <<>>, after |-> <<>>]

RECURSIVE JoinWith(_, _, _)
JoinWith(texts, sep, k) ==
    IF k > Len(texts) THEN <<>>
    ELSE IF k = Len(texts) THEN texts[k]
    ELSE texts[k] \o sep \o JoinWith(texts, sep, k + 1)

ClauseText(c) ==
    IF c = NoClause THEN <<>>
    ELSE c.keyword
           \o (IF c.ticked THEN <<BT>> ELSE <<>>)
           \o JoinWith(c.segments, <<"_">>, 1)
           \o (IF c.ticked THEN <<BT>> ELSE <<>>)
           \o c.gap \o <<"(">>
           \o JoinWith([k \in 1..Len(c.columns) |-> c.columns[k].text], <<",">>, 1)
           \o <<")">> \o c.after

\* The whole dump.
DumpText(d) == ClauseText(d.clause) \o d.keyword \o BlockText(d.rows) \o d.tail

\* The bounds of the model.
MaxItems == 3
MaxPlain == 3
MaxCode == 7
MaxRows == 2
MaxDumpItems == 1
MaxPasses == 2
MaxFill == 0
MaxSegments == 2
MaxColumns == 2

\* The sequences of at most n elements of S.
SeqsUpTo(S, n) == UNION {[1..k -> S] : k \in 0..n}

CombinedAddons == <<"C","o","m","b","i","n","e","d","A","d","d","o","n","s">>

CombinedBio == <<"C","o","m","b","i","n","e","d","B","i","o">>

BioAddons == <<"B","i","o","A","d","d","o","n","s">>

Orders == <<"O","r","d","e","r","s">>

\* The table names a caller passes.
TableNames == {CombinedAddons, CombinedBio, BioAddons, Orders}

\* The output file before the call: not there, or holding an earlier script.
NoFile == [exists |-> FALSE, data |-> <<>>]

OldFile == [exists |-> TRUE, data |-> <<"o", "l", "d">>]

\* The keyword INSERT INTO as dumps write it.
InsertKeywords == {<<"I","N","S","E","R","T"," ","I","N","T","O"," ">>,
                   <<"i","n","s","e","r","t"," ","i","n","t","o"," ">>}

\* The words of table names, and each capitalized.
Segments == {<<"c","o","m","b","i","n","e","d">>, <<"a","d","d","o","n","s">>, <<"B","I","O">>}

Capitalized(word) ==
    IF word = <<"c","o","m","b","i","n","e","d">> THEN <<"C","o","m","b","i","n","e","d">>
    ELSE IF word = <<"a","d","d","o","n","s">> THEN <<"A","d","d","o","n","s">>
    ELSE <<"B","i","o">>

\* The ways a dump writes a column.
ColumnId == [text |-> <<"i", "d">>, name |-> <<"i", "d">>]

ColumnBio == [text |-> <<SP, BT, "b", "i", "o", BT>>, name |-> <<"b", "i", "o">>]

ColumnUrl == [text |-> <<BT, "u", "r", "l", BT, SP>>, name |-> <<"u", "r", "l">>]

ColumnRunId == [text |-> <<LF, "r", "u", "n", "_", "i", "d", SP>>,
                name |-> <<"r", "u", "n", "_", "i", "d">>]

ColumnForms == {ColumnId, ColumnBio, ColumnUrl, ColumnRunId}

\* Dumps for the whole of clean_sql_data.
BioClause == [keyword |-> <<"I","N","S","E","R","T"," ","I","N","T","O"," ">>, ticked |-> FALSE,
              segments |-> <<<<"c","o","m","b","i","n","e","d">>, <<"b", "i", "o">> >>, gap |-> <<SP>>,
              columns |-> <<ColumnId, ColumnBio>>, after |-> <<SP>>]

OrderClause == [keyword |-> <<"i","n","s","e","r","t"," ","i","n","t","o"," ">>, ticked |-> TRUE,
                segments |-> << <<"t">> >>, gap |-> <<>>,
                columns |-> <<ColumnUrl>>, after |-> <<LF>>]

Clauses == {NoClause, BioClause, OrderClause}

Keywords == {<<>>, <<"V","A","L","U","E","S"," ">>, <<"v","a","l","u","e","s","\n">>, <<"V","A","L","U","E","S">>}

Tails == {<<>>, <<";">>, <<"\n","-","-"," ","x">>}

DumpLiterals == SeqsUpTo({"a", ";"}, MaxDumpItems)

\* n rows, each with the one literal.
SameRows(n, literal) == [k \in 1..n |-> <<literal>>]

Dumps ==
    {[clause |-> c, keyword |-> k, rows |-> SameRows(n, l), tail |-> t] :
        c \in Clauses, k \in Keywords, n \in 1..MaxRows, l \in DumpLiterals, t \in Tails}

----
(***************************************************************************)
(* clean_sql_data, step by step                                            *)
(***************************************************************************)

VARIABLES
    dump,                 \* the parts the input file was written from
    table_name,           \* the parameter table_name
    input_file,           \* the text of the input file
    output_before,        \* the output file when clean_sql_data is called
    output_file,          \* the output file
    pc,                   \* the statement clean_sql_data is at
    content,
    detected_table,
    columns,
    values_content,
    cleaned_content,
    column_list,
    sql_server_content,
    result,               \* what clean_sql_data returns
    order,                \* the order in which apostrophe_fixes is enumerated
    passes                \* how often the quote fixer has been run again

vars == <<dump, table_name, input_file, output_before, output_file, pc, content,
          detected_table, columns, values_content, cleaned_content, column_list,
          sql_server_content, result, order, passes>>

given == <<dump, table_name, input_file, output_before, order>>

NoDump == [clause |-> NoClause, keyword |-> <<>>, rows |-> <<>>, tail |-> <<>>]

\* The locals before clean_sql_data has assigned them.
Unassigned ==
    /\ content = <<>>
    /\ detected_table = <<>>
    /\ columns = <<>>
    /\ values_content = <<>>
    /\ cleaned_content = <<>>
    /\ column_list = <<>>
    /\ sql_server_content = <<>>
    /\ result = "none"

Init ==
    /\ dump \in Dumps
    /\ table_name \in TableNames
    /\ input_file = DumpText(dump)
    /\ output_before \in {NoFile, OldFile}
    /\ output_file = output_before
    /\ pc = "read"
    /\ Unassigned
    /\ order = DictOrder
    /\ passes = 0

\* Lines 12-14: the input file is read.
ReadInput ==
    /\ pc = "read"
    /\ content' = input_file
    /\ pc' = "detect"
    /\ UNCHANGED <<given, output_file, detected_table, columns, values_content,
                   cleaned_content, column_list, sql_server_content, result, passes>>

\* Lines 15-20: there is no input file, or reading it fails.
ReadFails ==
    /\ pc = "read"
    /\ result' = "False"
    /\ pc' = "done"
    /\ UNCHANGED <<given, output_file, content, detected_table, columns,
                   values_content, cleaned_content, column_list,
                   sql_server_content, passes>>

\* Line 149
DetectTable ==
    /\ pc = "detect"
    /\ LET d == detect_table_and_columns(content, table_name)
       IN  /\ detected_table' = d.table
           /\ columns' = d.columns
    /\ pc' = "extract"
    /\ UNCHANGED <<given, output_file, content, values_content, cleaned_content,
                   column_list, sql_server_content, result, passes>>

\* Lines 155 and 158
ExtractValues ==
    /\ pc = "extract"
    /\ values_content' = extract_and_clean_values(content)
    /\ cleaned_content' = values_content'
    /\ pc' = "newlines"
    /\ UNCHANGED <<given, output_file, content, detected_table, columns,
                   column_list, sql_server_content, result, passes>>

\* What the four cleaning steps leave alone.
CleaningKeeps ==
    UNCHANGED <<given, output_file, content, detected_table, columns,
                values_content, column_list, sql_server_content, result, passes>>

\* Line 159
FixNewlines ==
    /\ pc = "newlines"
    /\ cleaned_content' = fix_newlines_and_formatting(cleaned_content)
    /\ pc' = "apostrophes"
    /\ CleaningKeeps

\* Line 160
FixApostrophes ==
    /\ pc = "apostrophes"
    /\ cleaned_content' = fix_apostrophes(cleaned_content)
    /\ pc' = "business"
    /\ CleaningKeeps

\* Line 161
FixBusinessTerms ==
    /\ pc = "business"
    /\ cleaned_content' = fix_business_terms(cleaned_content)
    /\ pc' = "quotes"
    /\ CleaningKeeps

\* Line 162
FixQuotes ==
    /\ pc = "quotes"
    /\ cleaned_content' = fix_quotes_and_special_chars(cleaned_content)
    /\ pc' = "assemble"
    /\ CleaningKeeps

\* Lines 164-212
Assemble ==
    /\ pc = "assemble"
    /\ column_list' = ColumnList(detected_table, columns)
    /\ sql_server_content' =
           SqlServerScript(detected_table, column_list', cleaned_content)
    /\ pc' = "open"
    /\ UNCHANGED <<given, output_file, content, detected_table, columns,
                   values_content, cleaned_content, result, passes>>

\* What opening and writing the output file leave alone.
SavingKeeps ==
    UNCHANGED <<given, content, detected_table, columns, values_content,
                cleaned_content, column_list, sql_server_content, passes>>

\* Line 216: open(output_file, 'w') creates the file or truncates it.
OpenOutput ==
    /\ pc = "open"
    /\ output_file' = [exists |-> TRUE, data |-> <<>>]
    /\ pc' = "write"
    /\ UNCHANGED result
    /\ SavingKeeps

\* Lines 216 and 228-230: open raises.
OpenFails ==
    /\ pc = "open"
    /\ result' = "False"
    /\ pc' = "done"
    /\ UNCHANGED output_file
    /\ SavingKeeps

\* Lines 217-226: the script is written and the file closed.
WriteOutput ==
    /\ pc = "write"
    /\ output_file' = [exists |-> TRUE, data |-> sql_server_content]
    /\ result' = "True"
    /\ pc' = "done"
    /\ SavingKeeps

\* How much of a script of n characters is in the file when writing it fails.
WrittenBeforeFailure(n) == {0, n \div 2, n - 1}

\* Lines 217 and 228-230: write or close raises, part of the script written.
WriteFails ==
    /\ pc = "write"
    /\ \E n \in WrittenBeforeFailure(Len(sql_server_content)) :
          output_file' = [exists |-> TRUE, data |-> SubSeq(sql_server_content, 1, n)]
    /\ result' = "False"
    /\ pc' = "done"
    /\ SavingKeeps

Next ==
    \/ ReadInput
    \/ ReadFails
    \/ DetectTable
    \/ ExtractValues
    \/ FixNewlines
    \/ FixApostrophes
    \/ FixBusinessTerms
    \/ FixQuotes
    \/ Assemble
    \/ OpenOutput
    \/ OpenFails
    \/ WriteOutput
    \/ WriteFails

Spec == Init /\ [][Next]_vars

----
(***************************************************************************)
(* Properties of clean_sql_data as a whole                                 *)
(***************************************************************************)

\* The positions at which pat occurs in text.
Occurrences(text, pat) == {i \in 1..Len(text) : StartsAt(text, i, pat)}

EndsWith(text, pat) ==
    Len(pat) <= Len(text) /\ StartsAt(text, Len(text) - Len(pat) + 1, pat)

\* The statements at which the locals of the name have been assigned.
Extracted == pc \in {"newlines", "apostrophes", "business", "quotes",
                     "assemble", "open", "write"}

Assembled == pc \in {"open", "write"} \/ (pc = "done" /\ sql_server_content # <<>>)

\* C3: when clean_sql_data has returned, the output file holds the whole
\* script or is as it was before the call.
C3_AllOrNothing ==
    pc = "done" =>
        \/ output_file = [exists |-> TRUE, data |-> sql_server_content]
        \/ output_file = output_before

\* The content has no INSERT INTO and no VALUES, in any case of letters.
NoInsertNoValues(text) ==
    /\ \A i \in 1..Len(text) : ~StartsAtNoCase(text, i, <<"I","N","S","E","R","T"," ","I","N","T","O">>)
    /\ \A i \in 1..Len(text) : ~StartsAtNoCase(text, i, ValuesKeyword)

\* The INSERT statement of the template, up to the values.
InsertStatement(table, list) ==
    <<"I","N","S","E","R","T"," ","I","N","T","O">> \o <<SP>> \o table \o <<SP>> \o list \o <<SP>> \o <<"V","A","L","U","E","S">>

\* C6 as claimed: for a dump with no INSERT INTO clause and no VALUES
\* keyword the script names the fallback table, its values block is the
\* whole trimmed input, and its INSERT statement has an empty column list.
C6_EmptyColumnList ==
    (Assembled /\ NoInsertNoValues(content)) =>
        /\ detected_table = table_name
        /\ values_content = Strip(content, Whitespace)
        /\ column_list = <<>>
        /\ Contains(sql_server_content, InsertStatement(table_name, <<>>))

\* The column list the script has for a table no columns were detected for.
DefaultColumns(table) ==
    IF table \in {CombinedAddons, BioAddons} THEN AddonsColumnList
    ELSE IF table = CombinedBio THEN BioColumnList
    ELSE <<>>

\* C6, amended: for such a dump the script names the fallback table, its
\* values block is the whole trimmed input, no columns are detected, and
\* the INSERT statement has the default column list of the Addons tables
\* when the fallback name contains Addons, else that of the Bio tables when
\* it contains Bio, else no column list.
C6_FallbackDump ==
    (Assembled /\ NoInsertNoValues(content)) =>
        /\ detected_table = table_name
        /\ values_content = Strip(content, Whitespace)
        /\ columns = <<>>
        /\ column_list = DefaultColumns(table_name)
        /\ Contains(sql_server_content,
                    InsertStatement(table_name, DefaultColumns(table_name)))

C6_Witness ==
    /\ pc = "done" /\ result = "True"
    /\ NoInsertNoValues(content)
    /\ table_name = CombinedBio
    /\ column_list = BioColumnList
    /\ values_content = Strip(content, Whitespace)
    /\ dump.tail # <<>>

\* C7: for a dump with the VALUES keyword, the values block extracted is
\* the rows written between VALUES and what ends the statement.
C7_RowsExtracted ==
    (Extracted /\ dump.keyword # <<>>) => values_content = BlockText(dump.rows)

\* C8: for the table CombinedBio and a values block of two rows the script
\* has one INSERT INTO CombinedBio, IDENTITY_INSERT set ON before it and
\* OFF after it, and the SELECT TOP 5 ordered by internal_id DESC at its end.
C8_BioScript ==
    (/\ Assembled
     /\ detected_table = CombinedBio
     /\ Len(dump.rows) = 2
     /\ values_content = BlockText(dump.rows)) =>
        LET script == sql_server_content
            inserts == Occurrences(script, <<"I","N","S","E","R","T"," ","I","N","T","O"," ","C","o","m","b","i","n","e","d","B","i","o">>)
            ons == Occurrences(script, <<"S","E","T"," ","I","D","E","N","T","I","T","Y","_","I","N","S","E","R","T"," ","C","o","m","b","i","n","e","d","B","i","o"," ","O","N">>)
            offs == Occurrences(script, <<"S","E","T"," ","I","D","E","N","T","I","T","Y","_","I","N","S","E","R","T"," ","C","o","m","b","i","n","e","d","B","i","o"," ","O","F","F">>)
        IN  /\ Cardinality(inserts) = 1
            /\ \A i \in inserts :
                  /\ \E n \in ons : n < i
                  /\ \E f \in offs : f > i
            /\ EndsWith(script, <<"S","E","L","E","C","T"," ","T","O","P"," ","5"," ","*"," ","F","R","O","M"," ","C","o","m","b","i","n","e","d","B","i","o"," ","O","R","D","E","R"," ","B","Y"," ","i","n","t","e","r","n","a","l","_","i","d"," ","D","E","S","C",";","\n">>)

C8_Witness ==
    /\ pc = "done" /\ result = "True"
    /\ output_file.data = sql_server_content
    /\ dump.clause = BioClause
    /\ detected_table = CombinedBio
    /\ Len(dump.rows) = 2
    /\ values_content = BlockText(dump.rows)

----
(***************************************************************************)
(* The four cleaning steps on a values block                               *)
(***************************************************************************)

\* Values blocks of literals whose inner quotes are written in the three ways.
LiteralItems == {"a", "T", "1", RawQuote, EscapedQuote, DoubledQuote}

LiteralRows ==
    {<< <<l>> >> : l \in SeqsUpTo(LiteralItems, MaxItems)}
      \cup {<< <<l, <<"b">> >> >> : l \in SeqsUpTo(LiteralItems, MaxItems)}

\* Values blocks without quotes: one tuple, or two.
PlainChars == {"1", "n", BS, SP, TAB, LF, "U+00AC", "U+00A9"}

PlainBlocks ==
    {<<"(">> \o t \o <<")">> : t \in SeqsUpTo(PlainChars, MaxPlain)}
      \cup {<<"(">> \o t \o <<")", ",", SP, "(", "2", ")">> :
                t \in SeqsUpTo(PlainChars, MaxPlain)}

\* Texts of quotes and codes.
CodeTexts == SeqsUpTo({SQ, "T", "1"}, MaxCode)

\* The values block of the scenario: (1, 'it''s T100 test\n line2')
Scenario == <<"(","1",","," ","'","i","t","'","'","s"," ","T","1","0","0"," ","t","e","s","t","\\","n"," ","l","i","n","e","2","'",")">>

ScenarioCleaned == <<"(","1",","," ","'","i","t","'","'","s"," ","T","1","0","0"," ","t","e","s","t"," ","l","i","n","e","2","'",")">>

\* A dump that is the given text and nothing else.
BareText(text) == [clause |-> NoClause, keyword |-> <<>>, rows |-> <<>>, tail |-> text]

BlockDumps ==
    {[clause |-> NoClause, keyword |-> <<>>, rows |-> r, tail |-> <<>>] : r \in LiteralRows}
      \cup {BareText(t) : t \in PlainBlocks \cup CodeTexts \cup {Scenario}}

\* clean_sql_data at line 159, the dump read and its values block extracted.
InitBlock ==
    /\ dump \in BlockDumps
    /\ table_name = CombinedAddons
    /\ input_file = DumpText(dump)
    /\ output_before = NoFile
    /\ output_file = output_before
    /\ pc = "newlines"
    /\ content = input_file
    /\ LET d == detect_table_and_columns(content, table_name)
       IN  /\ detected_table = d.table
           /\ columns = d.columns
    /\ values_content = extract_and_clean_values(content)
    /\ cleaned_content = values_content
    /\ column_list = <<>>
    /\ sql_server_content = <<>>
    /\ result = "none"
    /\ order = DictOrder
    /\ passes = 0

NextBlock ==
    \/ FixNewlines
    \/ FixApostrophes
    \/ FixBusinessTerms
    \/ FixQuotes

SpecBlock == InitBlock /\ [][NextBlock]_vars

\* C1: a values block of literals leaves the four steps with every inner
\* quote of every literal written as two quotes, and the quotes around each
\* literal single.
C1_InnerQuotesDoubled ==
    (pc = "assemble" /\ dump.rows # <<>> /\ values_content = BlockText(dump.rows)) =>
        cleaned_content = BlockEscaped(dump.rows)

\* The text is parenthesized tuples, parentheses balanced, with commas and
\* whitespace between them.
RECURSIVE DepthAt(_, _)
DepthAt(text, i) ==
    IF i = 0 THEN 0
    ELSE DepthAt(text, i - 1)
           + (IF text[i] = "(" THEN 1 ELSE IF text[i] = ")" THEN -1 ELSE 0)

Tuples(text) ==
    /\ Len(text) > 0
    /\ text[1] = "("
    /\ DepthAt(text, Len(text)) = 0
    /\ \A i \in 1..Len(text) :
          /\ DepthAt(text, i) >= 0
          /\ (DepthAt(text, i) = 0 /\ text[i] # ")") => text[i] \in Whitespace \cup {","}

\* The text with each run of whitespace made one space: the characters
\* that are no whitespace, and a space for the first character of each run.
Collapsed(text) ==
    LET kept == {i \in 1..Len(text) :
                    ~IsSpace(text[i]) \/ i = 1 \/ ~IsSpace(text[i - 1])}
        At(k) == CHOOSE i \in kept : Cardinality({j \in kept : j < i}) = k - 1
    IN  [k \in 1..Cardinality(kept) |->
            IF IsSpace(text[At(k)]) THEN SP ELSE text[At(k)]]

\* C5 as claimed: a values block of balanced tuples without a quote leaves
\* the four steps as it was, but for runs of whitespace made one space.
C5_OnlyWhitespace ==
    (pc = "assemble" /\ Tuples(values_content) /\ ~Contains(values_content, <<SQ>>)) =>
        cleaned_content = Collapsed(values_content)

\* The text has a backslash-n escape or one of the mis-encoded signs.
HasEscapeOrGlyph(text) ==
    \/ Contains(text, <<BS, "n">>)
    \/ Contains(text, GlyphCopyright)
    \/ Contains(text, GlyphRegistered)
    \/ Contains(text, GlyphTrademark)

\* C5, amended: a values block of balanced tuples without a quote, without
\* a backslash-n escape and without a mis-encoded copyright, registered or
\* trademark sign leaves the four steps as it was, but for runs of
\* whitespace made one space.
C5_PlainBlockKept ==
    (/\ pc = "assemble"
     /\ Tuples(values_content)
     /\ ~Contains(values_content, <<SQ>>)
     /\ ~HasEscapeOrGlyph(values_content)) =>
        cleaned_content = Collapsed(values_content)

C5_Witness ==
    /\ pc = "assemble"
    /\ values_content = <<"(", "1", TAB, LF, ")", ",", SP, "(", "2", ")">>
    /\ cleaned_content = <<"(", "1", SP, ")", ",", SP, "(", "2", ")">>

\* A code 'T<digits>' is written from position i to position j of the text.
CodeAt(text, i, j) ==
    /\ 1 <= i /\ i + 3 <= j /\ j <= Len(text)
    /\ text[i] = SQ /\ text[i + 1] = "T" /\ text[j] = SQ
    /\ \A k \in (i + 2)..(j - 1) : text[k] \in Digits

Codes(text) == {c \in (1..Len(text)) \X (1..Len(text)) : CodeAt(text, c[1], c[2])}

\* The codes taken from left to right, none sharing a quote with the code
\* taken before it: a code is taken unless the code that ends at its first
\* quote is.
RECURSIVE Taken(_, _)
Taken(text, c) ==
    /\ c \in Codes(text)
    /\ \A b \in Codes(text) : b[2] = c[1] => ~Taken(text, b)

\* The text with the character at each of the positions written twice.
TwiceAt(text, positions) ==
    Concat([i \in 1..Len(text) |->
               IF i \in positions THEN <<text[i], text[i]>> ELSE <<text[i]>>], 1)

\* The quotes of the codes of the set.
QuotesOf(codes) == {c[1] : c \in codes} \cup {c[2] : c \in codes}

\* The text holds nothing else fix_business_terms rewrites.
OnlyCodes(text) ==
    /\ ~Contains(text, <<BS, SQ>>)
    /\ ~Contains(text, <<"U", "A", "E", SQ, "s">>)

\* C10 as claimed: in the scenario fix_business_terms turns T100 into
\* ''T100'', and it writes each 'T<digits>' of a text as ''T<digits>''.
C10_EveryCodeRewritten ==
    [][pc = "business" =>
          /\ values_content = Scenario =>
                Contains(cleaned_content', <<SQ, SQ, "T", "1", "0", "0", SQ, SQ>>)
          /\ OnlyCodes(cleaned_content) =>
                cleaned_content' =
                    TwiceAt(cleaned_content, QuotesOf(Codes(cleaned_content)))]_vars

\* C10, amended: in the scenario the line break becomes a space, giving
\* (1, 'it''s T100 test line2'), which the later steps leave as it is, its
\* T100 standing in no quotes of its own; and fix_business_terms writes as
\* ''T<digits>'' each 'T<digits>' of a text, taken from left to right, that
\* does not begin at the quote ending the one rewritten before it.
C10_CodesRewritten ==
    [][/\ values_content = Scenario =>
             /\ pc = "newlines" => cleaned_content' = ScenarioCleaned
             /\ pc \in {"apostrophes", "business", "quotes"} =>
                   cleaned_content' = cleaned_content
       /\ (pc = "business" /\ OnlyCodes(cleaned_content)) =>
             cleaned_content' =
                 TwiceAt(cleaned_content,
                         QuotesOf({c \in Codes(cleaned_content) :
                                      Taken(cleaned_content, c)}))]_vars

\* A text with two codes sharing a quote has passed fix_business_terms.
C10_Witness ==
    /\ pc = "quotes"
    /\ values_content = <<SQ, "T", "1", SQ, "T", "1", SQ>>
    /\ cleaned_content = <<SQ, SQ, "T", "1", SQ, SQ, "T", "1", SQ>>

----
(***************************************************************************)
(* detect_table_and_columns on dumps with an INSERT INTO clause            *)
(***************************************************************************)

\* The sequences of one to n elements of S.
Seqs1UpTo(S, n) == UNION {[1..k -> S] : k \in 1..n}

InsertClauses ==
    {[keyword |-> w, ticked |-> b, segments |-> n, gap |-> g, columns |-> c,
      after |-> <<SP>>] :
        w \in InsertKeywords, b \in BOOLEAN, n \in Seqs1UpTo(Segments, MaxSegments),
        g \in {<<>>, <<SP>>}, c \in Seqs1UpTo(ColumnForms, MaxColumns)}

\* clean_sql_data at line 149, the dump read.
InitDetect ==
    /\ \E c \in InsertClauses :
          dump = [clause |-> c, keyword |-> <<"V","A","L","U","E","S"," ">>, rows |-> << <<>> >>,
                  tail |-> <<";">>]
    /\ table_name = Orders
    /\ input_file = DumpText(dump)
    /\ output_before = NoFile
    /\ output_file = output_before
    /\ pc = "detect"
    /\ content = input_file
    /\ detected_table = <<>>
    /\ columns = <<>>
    /\ values_content = <<>>
    /\ cleaned_content = <<>>
    /\ column_list = <<>>
    /\ sql_server_content = <<>>
    /\ result = "none"
    /\ order = DictOrder
    /\ passes = 0

NextDetect == DetectTable

SpecDetect == InitDetect /\ [][NextDetect]_vars

\* C9: for a dump with an INSERT INTO clause the table detected is the
\* words of the clause's table name, each capitalized, put together, and
\* the columns detected are the names of the clause's columns in their
\* order, without the whitespace and backticks around them.
C9_TableAndColumns ==
    (pc = "extract" /\ dump.clause # NoClause) =>
        /\ detected_table =
               Concat([k \in 1..Len(dump.clause.segments) |->
                          Capitalized(dump.clause.segments[k])], 1)
        /\ columns = [k \in 1..Len(dump.clause.columns) |-> dump.clause.columns[k].name]

C9_Witness ==
    /\ pc = "extract"
    /\ dump.clause.segments = <<<<"c","o","m","b","i","n","e","d">>, <<"a","d","d","o","n","s">>>>
    /\ dump.clause.ticked
    /\ detected_table = CombinedAddons
    /\ columns = <<ColumnBio.name, ColumnRunId.name>>

----
(***************************************************************************)
(* fix_quotes_and_special_chars run again on text already escaped          *)
(***************************************************************************)

\* Literals whose inner quotes are all written as two quotes.
EscapedItems == {"a", BS, DoubledQuote}

EscapedRows ==
    {<< <<l>> >> : l \in SeqsUpTo(EscapedItems, MaxItems)}
      \cup {<< <<l, <<"b">> >> >> : l \in SeqsUpTo(EscapedItems, MaxItems)}

InitQuotes ==
    /\ \E r \in EscapedRows :
          dump = [clause |-> NoClause, keyword |-> <<>>, rows |-> r, tail |-> <<>>]
    /\ table_name = CombinedAddons
    /\ input_file = DumpText(dump)
    /\ output_before = NoFile
    /\ output_file = output_before
    /\ pc = "quotes"
    /\ content = input_file
    /\ detected_table = table_name
    /\ columns = <<>>
    /\ values_content = extract_and_clean_values(content)
    /\ cleaned_content = values_content
    /\ column_list = <<>>
    /\ sql_server_content = <<>>
    /\ result = "none"
    /\ order = DictOrder
    /\ passes = 0

\* fix_quotes_and_special_chars applied once more.
RerunQuotes ==
    /\ pc = "quotes"
    /\ passes < MaxPasses
    /\ cleaned_content' = fix_quotes_and_special_chars(cleaned_content)
    /\ passes' = passes + 1
    /\ UNCHANGED <<given, output_file, pc, content, detected_table, columns,
                   values_content, column_list, sql_server_content, result>>

NextQuotes == RerunQuotes

SpecQuotes == InitQuotes /\ [][NextQuotes]_vars

\* C2: fix_quotes_and_special_chars leaves a text of literals whose inner
\* quotes are all written as two quotes as it is, however often it is run.
C2_EscapedTextKept ==
    (pc = "quotes" /\ values_content = BlockEscaped(dump.rows)) =>
        cleaned_content = values_content

----
(***************************************************************************)
(* fix_apostrophes with apostrophe_fixes enumerated in other orders        *)
(***************************************************************************)

\* Texts put together from the keys of apostrophe_fixes and their values:
\* some letters and spaces, a key or a value, and a key or nothing.
Pieces == {FixKey(n) : n \in 1..NumFixes} \cup {FixValue(n) : n \in 1..NumFixes}

ContractionTexts ==
    {Concat(f, 1) \o p \o k :
        f \in SeqsUpTo({<<"s">>, <<SP>>}, MaxFill),
        p \in Pieces,
        k \in {FixKey(n) : n \in 1..NumFixes} \cup {<<>>}}

\* The dict's order, and that order backwards.
Enumerations == {DictOrder, [n \in 1..NumFixes |-> NumFixes + 1 - n]}

InitApostrophes ==
    /\ \E t \in ContractionTexts : dump = BareText(t)
    /\ table_name = CombinedAddons
    /\ input_file = DumpText(dump)
    /\ output_before = NoFile
    /\ output_file = output_before
    /\ pc = "apostrophes"
    /\ content = input_file
    /\ detected_table = table_name
    /\ columns = <<>>
    /\ values_content = extract_and_clean_values(content)
    /\ cleaned_content = values_content
    /\ column_list = <<>>
    /\ sql_server_content = <<>>
    /\ result = "none"
    /\ order \in Enumerations
    /\ passes = 0

\* Line 160, for the enumeration order.
FixApostrophesInOrder ==
    /\ pc = "apostrophes"
    /\ cleaned_content' = ApplyFixes(cleaned_content, order, 1)
    /\ pc' = "business"
    /\ CleaningKeeps

NextApostrophes == FixApostrophesInOrder

SpecApostrophes == InitApostrophes /\ [][NextApostrophes]_vars

\* The quotes of the text at which a key of apostrophe_fixes has its quote.
KeyQuotes(text) ==
    {q \in 1..Len(text) :
        \E n \in 1..NumFixes :
            /\ q > Len(Contractions[n])
            /\ StartsAt(text, q - Len(Contractions[n]), FixKey(n))}

\* C4: fix_apostrophes, in whatever order it takes the entries, writes the
\* quote of each occurrence of each key twice and nothing else differently,
\* and leaves no occurrence of a key.
C4_ContractionsDoubled ==
    pc = "business" =>
        /\ cleaned_content = TwiceAt(values_content, KeyQuotes(values_content))
        /\ \A n \in 1..NumFixes : ~Contains(cleaned_content, FixKey(n))

C4_Witness ==
    /\ pc = "business"
    /\ order # DictOrder
    /\ values_content = <<"s","h","e","'","l","l","d","o","n","'","t">>
    /\ cleaned_content = <<"s","h","e","'","'","l","l","d","o","n","'","'","t">>

====
